---- MODULE Spec2Model ----
(***************************************************************************)
(* Vote casting and duplicate prevention of the polling app.               *)
(*                                                                         *)
(* The persistent state is the three tables of the Supabase schema         *)
(* (polls, poll_options, votes) with their constraints, row level security *)
(* policies and the vote-count trigger.  The in-process state is the       *)
(* rate-limit map of lib/validation.ts.  Requests run concurrently: every  *)
(* SQL statement and every synchronous stretch of JavaScript between two   *)
(* awaits is one step.                                                     *)
(***************************************************************************)
EXTENDS Integers, Sequences, FiniteSets, TLC

\* ------------------------------------------------------------------ bounds
NumReq == 2        \* requests of one behaviour of Spec, any two of them concurrent
MaxDbTime == 1     \* ticks of the database clock now()
MaxTick == 2       \* half windows the JavaScript clock Date.now() runs through
MaxExec == 6       \* executeVote calls of one user the model follows within one window
RaceN == 3         \* concurrent first-time casts of SpecRace

\* ------------------------------------------------------------- the universe
NoUser == "anon"                   \* auth.uid() is null / getUser() returns no user
Users == {"u1", "u2"}
Callers == Users \cup {NoUser}
PollIds == {"p1", "p2"}
OptionIds == {"o1", "o2", "o3"}
NoVoteId == 0                      \* SQL NULL in a uuid column or variable
Definer == "definer"               \* role of a SECURITY DEFINER function: row level security is bypassed

\* the (poll, option) pairs requests name: the two options of p1, the option
\* of the private poll p2, and o3 with p1, an option of another poll
Ballots == {<<"p1", "o1">>, <<"p1", "o2">>, <<"p1", "o3">>, <<"p2", "o3">>}

Req == 1 .. NumReq

VARIABLES
  polls,          \* public.polls: id -> [owner_id, is_public, total_votes]
  poll_options,   \* public.poll_options: id -> [poll_id, votes]
  votes,          \* public.votes: set of [id, poll_id, option_id, user_id, created_at]
  nextVoteId,     \* next value of gen_random_uuid() for votes.id
  dbNow,          \* the database clock now()
  req,            \* the requests in flight, one per slot
  rateLimitMap,   \* lib/validation.ts rateLimitMap: key -> [count, resetTime, firstRequest]
  now,            \* Date.now(), in milliseconds
  rlLast,         \* the last checkRateLimit call and what it returned
  admitted,       \* per key: the counted calls admitted in the key's current window
  observed,       \* per key: the counts those admitted calls read before incrementing
  executed        \* per user: the executeVote calls made in the current window of the user's vote key

dbVars == <<polls, poll_options, votes, nextVoteId, dbNow>>
rlVars == <<rateLimitMap, now, rlLast, admitted, observed, executed>>
vars == <<polls, poll_options, votes, nextVoteId, dbNow, req,
          rateLimitMap, now, rlLast, admitted, observed, executed>>

\* ------------------------------------------------------------ request slots
NoResult == [success |-> FALSE, code |-> "NONE", vote_id |-> NoVoteId]
Idle == [kind |-> "idle", pc |-> "idle", user |-> NoUser, poll |-> "p1", option |-> "o1",
         allow |-> FALSE, seen |-> FALSE, token |-> "", cookie |-> "", result |-> NoResult]

Failure(code) == [success |-> FALSE, code |-> code, vote_id |-> NoVoteId]
Success(code, id) == [success |-> TRUE, code |-> code, vote_id |-> id]

\* A slot takes one request; the slots are taken in order.
Free(r) == req[r].pc = "idle" /\ (IF r = 1 THEN TRUE ELSE req[r - 1].pc # "idle")

Finish(r, res) == [req EXCEPT ![r].pc = "done", ![r].result = res]
Goto(r, pc) == [req EXCEPT ![r].pc = pc]

\* ------------------------------------------------------------------ tables
RowsOfPoll(vs, p) == {v \in vs : v.poll_id = p}
RowsOfOption(vs, o) == {v \in vs : v.option_id = o}
RowsOfPair(vs, p, u) == {v \in vs : v.poll_id = p /\ v.user_id = u}

\* (faulty variant: the constraint dropped)
votes_unique_per_user_per_poll_weak(vs, row) == TRUE

\* constraint votes_unique_per_user_per_poll unique (poll_id, user_id)
votes_unique_per_user_per_poll(vs, row) == RowsOfPair(vs, row.poll_id, row.user_id) = {}

\* (faulty variant: the references are not enforced)
votes_foreign_keys_unchecked(pl, po, row) == TRUE

\* votes.poll_id references polls(id), votes.option_id references poll_options(id)
votes_foreign_keys(pl, po, row) == row.poll_id \in DOMAIN pl /\ row.option_id \in DOMAIN po

\* policy polls_update_only_owner
polls_update_only_owner(pl, p, role) == role = Definer \/ pl[p].owner_id = role

\* policy options_modify_only_owner
options_modify_only_owner(pl, po, o, role) ==
  role = Definer \/ (po[o].poll_id \in DOMAIN pl /\ pl[po[o].poll_id].owner_id = role)

\* policy votes_select_owner_user_or_public: the rows of votes a role reads
votes_select_owner_user_or_public(pl, vs, role) ==
  IF role = Definer THEN vs
  ELSE {v \in vs : \/ v.user_id = role
                   \/ /\ v.poll_id \in DOMAIN pl
                      /\ (pl[v.poll_id].is_public \/ pl[v.poll_id].owner_id = role)}

\* policy votes_insert_authenticated_once of migration 0003.  Inside the
\* subquery "from public.votes v2" the unqualified poll_id is v2's own column,
\* so the test reads v2.poll_id = v2.poll_id: any row of the caller blocks.
votes_insert_authenticated_once(pl, vs, row, role) ==
  \/ role = Definer
  \/ /\ row.user_id = role
     /\ ~ \E v2 \in votes_select_owner_user_or_public(pl, vs, role) :
            v2.poll_id = v2.poll_id /\ v2.user_id = role

\* policy votes_delete_only_owner_or_poll_owner
votes_delete_only_owner_or_poll_owner(pl, v, role) ==
  \/ role = Definer
  \/ v.user_id = role
  \/ (v.poll_id \in DOMAIN pl /\ pl[v.poll_id].owner_id = role)

\* (faulty variant: any signed-in user passes)
polls_delete_only_owner_any_user(pl, p, role) == role # NoUser

\* policy polls_delete_only_owner
polls_delete_only_owner(pl, p, role) == role = Definer \/ pl[p].owner_id = role

\* function user_has_voted(p_poll_id, p_user_id)
user_has_voted(vs, p, u) ==
  IF u = NoUser THEN FALSE ELSE \E v \in vs : v.poll_id = p /\ v.user_id = u

\* trigger function update_poll_vote_count, run for one row.  new_poll is
\* new.poll_id: the inserted row's poll, or "null" after a delete, where the
\* row variable new is null and "where id = null" matches no poll.  The
\* function is not SECURITY DEFINER: it reads and writes as the statement's role.
update_poll_vote_count(pl, vs, new_poll, role) ==
  IF new_poll \in DOMAIN pl /\ polls_update_only_owner(pl, new_poll, role)
  THEN [pl EXCEPT ![new_poll].total_votes =
          Cardinality(RowsOfPoll(votes_select_owner_user_or_public(pl, vs, role), new_poll))]
  ELSE pl

\* insert into public.votes (poll_id, option_id, user_id) values (...), one
\* statement with its checks and the after-insert trigger
\* trg_update_poll_vote_count: [err, votes, polls, id]
InsertVote(pl, po, vs, p, o, u, role) ==
  LET row == [id |-> nextVoteId, poll_id |-> p, option_id |-> o, user_id |-> u,
              created_at |-> dbNow]
      err == IF ~ votes_insert_authenticated_once(pl, vs, row, role) THEN "rls"
             ELSE IF ~ votes_unique_per_user_per_poll(vs, row) THEN "unique_violation"
             ELSE IF ~ votes_foreign_keys(pl, po, row) THEN "foreign_key_violation"
             ELSE "ok"
      vs2 == vs \cup {row}
  IN IF err = "ok"
     THEN [err |-> "ok", votes |-> vs2, polls |-> update_poll_vote_count(pl, vs2, p, role),
           id |-> row.id]
     ELSE [err |-> err, votes |-> vs, polls |-> pl, id |-> NoVoteId]


\* ------------------------------------------------ lib/validation.ts, rate limiting
\* (faulty variant: failed requests are counted)
RATE_LIMIT_CONFIGS_counting_failures ==
  [a \in {"vote", "create_poll", "delete_poll", "view_poll"} |->
     [windowMs |-> 60 * 1000,
      maxRequests |-> CASE a = "vote" -> 5
                        [] a = "create_poll" -> 3
                        [] a = "delete_poll" -> 10
                        [] OTHER -> 100,
      skipSuccessfulRequests |-> FALSE,
      skipFailedRequests |-> FALSE]]

RlActions == {"vote", "create_poll", "delete_poll", "view_poll"}

RATE_LIMIT_CONFIGS ==
  [a \in RlActions |->
     [windowMs |-> 60 * 1000,
      maxRequests |-> CASE a = "vote" -> 5
                        [] a = "create_poll" -> 3
                        [] a = "delete_poll" -> 10
                        [] OTHER -> 100,
      skipSuccessfulRequests |-> FALSE,
      skipFailedRequests |-> TRUE]]

\* `${userId}:${action}`: user ids are uuids and hold no colon, so the string
\* determines the pair and the pair stands for it
RateLimitKey(userId, action) == <<userId, action>>

\* Math.ceil(a / b)
Ceil(a, b) == - ((- a) \div b)

\* rateLimitMap.set(key, entry)
MapSet(map, key, entry) == [k \in DOMAIN map \cup {key} |-> IF k = key THEN entry ELSE map[k]]

\* rateLimitMap.delete(key) for every key of a set
MapDelete(map, keys) == [k \in DOMAIN map \ keys |-> map[k]]

\* (faulty variant: ">=" for ">", the window ends at its resetTime)
WindowExpired_at_reset(map, key, t) == key \notin DOMAIN map \/ t >= map[key].resetTime

\* "!userLimit || now > userLimit.resetTime"
WindowExpired(map, key, t) == key \notin DOMAIN map \/ t > map[key].resetTime

\* (faulty variant: ">" for ">=")
LimitExceeded_off_by_one(entry, config) == entry.count > config.maxRequests

\* "currentEntry.count >= config.maxRequests"
LimitExceeded(entry, config) == entry.count >= config.maxRequests

\* (faulty variants: the increment moved before the limit test; the increment lost)
CountRequest_on_denial(map, key, allowed) == [map EXCEPT ![key].count = @ + 1]
CountRequest_lost_update(map, key, allowed) == map

\* "currentEntry.count++"
CountRequest(map, key, allowed) == IF allowed THEN [map EXCEPT ![key].count = @ + 1] ELSE map

\* checkRateLimit(userId, action, success) called at time t on the map:
\* [map: the map after the call, result: the object returned, fresh: the call
\*  began a window, read: currentEntry.count as the limit test read it]
checkRateLimit(map, t, userId, action, success) ==
  LET key == RateLimitKey(userId, action)
      config == RATE_LIMIT_CONFIGS[action]
      fresh == WindowExpired(map, key, t)
      m1 == IF fresh
            THEN MapSet(map, key, [count |-> 0, resetTime |-> t + config.windowMs,
                                   firstRequest |-> t])
            ELSE map
      currentEntry == m1[key]
      retryAfterSeconds == Ceil(currentEntry.resetTime - t, 1000)
      skipped == \/ (config.skipSuccessfulRequests /\ success)
                 \/ (config.skipFailedRequests /\ ~ success)
      allowed == skipped \/ ~ LimitExceeded(currentEntry, config)
      m2 == IF skipped THEN m1 ELSE CountRequest(m1, key, allowed)
  IN [map |-> m2,
      fresh |-> fresh,
      read |-> currentEntry.count,
      result |-> [allowed |-> allowed,
                  remaining |-> IF allowed THEN config.maxRequests - m2[key].count ELSE 0,
                  resetTime |-> currentEntry.resetTime,
                  retryAfterSeconds |-> retryAfterSeconds,
                  limit |-> config.maxRequests]]

\* clearRateLimit(userId, action?): action = "all" stands for the call without an action
clearRateLimit(map, userId, action) ==
  IF action # "all" THEN MapDelete(map, {RateLimitKey(userId, action)})
  ELSE MapDelete(map, {k \in DOMAIN map : k[1] = userId})

\* cleanupExpiredRateLimits() at time t
cleanupExpiredRateLimits(map, t) == MapDelete(map, {k \in DOMAIN map : t > map[k].resetTime})

\* The instants Date.now() takes: the half windows, each with the millisecond after it.
Instants == {k * ((60 * 1000) \div 2) + j : k \in 0 .. MaxTick, j \in {0, 1}}

RlKeys == {RateLimitKey(u, a) : u \in Users, a \in RlActions}
NoCall == [called |-> FALSE, key |-> RateLimitKey(NoUser, "vote"), t |-> 0, success |-> TRUE,
           had |-> FALSE, priorReset |-> 0, priorAdmitted |-> 0, read |-> 0,
           result |-> [allowed |-> TRUE, remaining |-> 0, resetTime |-> 0,
                       retryAfterSeconds |-> 0, limit |-> 0]]

RateLimitInit ==
  /\ rateLimitMap = << >>
  /\ now = 0
  /\ rlLast = NoCall
  /\ admitted = [k \in RlKeys |-> 0]
  /\ observed = [k \in RlKeys |-> {}]
  /\ executed = [u \in Users |-> 0]

\* A key's window runs from the call that set its entry to the entry's resetTime.
InWindow(map, key, t) == key \in DOMAIN map /\ t <= map[key].resetTime

\* What one checkRateLimit call at the current time leaves behind: the map, the
\* record of the call with the entry it found, and the tally of the counted
\* calls (success = true) the key's window has admitted.
RateLimitCall(userId, action, success) ==
  \E c \in {checkRateLimit(rateLimitMap, now, userId, action, success)} :
    LET key == RateLimitKey(userId, action)
        had == key \in DOMAIN rateLimitMap
        inWindow == InWindow(rateLimitMap, key, now)
        counts == success /\ c.result.allowed
    IN /\ rateLimitMap' = c.map
       /\ rlLast' = [called |-> TRUE, key |-> key, t |-> now, success |-> success,
                     had |-> had,
                     priorReset |-> IF had THEN rateLimitMap[key].resetTime ELSE 0,
                     priorAdmitted |-> admitted[key],
                     read |-> c.read, result |-> c.result]
       /\ admitted' = [admitted EXCEPT ![key] =
                         (IF inWindow THEN @ ELSE 0) + (IF counts THEN 1 ELSE 0)]
       /\ observed' = [observed EXCEPT ![key] =
                         (IF inWindow THEN @ ELSE {}) \cup (IF counts THEN {c.read} ELSE {})]

\* a caller of checkRateLimit outside the vote path
CheckRateLimit(userId, action, success) ==
  /\ RateLimitCall(userId, action, success)
  /\ UNCHANGED <<now, executed, req>>
  /\ UNCHANGED dbVars

ClearRateLimit(userId, action) ==
  /\ rateLimitMap' = clearRateLimit(rateLimitMap, userId, action)
  /\ rlLast' = NoCall
  /\ admitted' = [k \in RlKeys |-> IF k \in DOMAIN rateLimitMap' THEN admitted[k] ELSE 0]
  /\ observed' = [k \in RlKeys |-> IF k \in DOMAIN rateLimitMap' THEN observed[k] ELSE {}]
  /\ UNCHANGED <<now, executed, req>>
  /\ UNCHANGED dbVars

CleanupExpiredRateLimits ==
  /\ rateLimitMap' = cleanupExpiredRateLimits(rateLimitMap, now)
  /\ rlLast' = NoCall
  /\ admitted' = [k \in RlKeys |-> IF k \in DOMAIN rateLimitMap' THEN admitted[k] ELSE 0]
  /\ observed' = [k \in RlKeys |-> IF k \in DOMAIN rateLimitMap' THEN observed[k] ELSE {}]
  /\ UNCHANGED <<now, executed, req>>
  /\ UNCHANGED dbVars

\* time passes
Tick ==
  /\ \E t \in Instants : t > now /\ now' = t
  /\ rlLast' = NoCall
  /\ UNCHANGED <<rateLimitMap, admitted, observed, executed, req>>
  /\ UNCHANGED dbVars

\* -------------------------------------------------------------------- Init
\* Two polls exist and nobody has voted: p1 is public, owned by u1, with the
\* options o1 and o2; p2 is private, owned by u2, with the option o3.
DbInit ==
  /\ polls = [p \in PollIds |->
               IF p = "p1" THEN [owner_id |-> "u1", is_public |-> TRUE, total_votes |-> 0]
                           ELSE [owner_id |-> "u2", is_public |-> FALSE, total_votes |-> 0]]
  /\ poll_options = [o \in OptionIds |->
               [poll_id |-> IF o = "o3" THEN "p2" ELSE "p1", votes |-> 0]]
  /\ votes = {}
  /\ nextVoteId = 1
  /\ dbNow = 0

Init ==
  /\ DbInit
  /\ req = [r \in Req |-> Idle]
  /\ RateLimitInit


\* ------------------------------------------------ castVote / cast_vote_enhanced
\* castVote(pollId, optionId, allowUpdate) calls the database function
\* cast_vote_enhanced as the signed-in user u (or nobody).
castVote(r, u, p, o, a) ==
  /\ Free(r)
  /\ req' = [req EXCEPT ![r] = [Idle EXCEPT !.kind = "enhanced", !.pc = "ev_poll", !.user = u,
                                            !.poll = p, !.option = o, !.allow = a]]
  /\ UNCHANGED <<polls, poll_options, votes, nextVoteId, dbNow>>

\* (faulty variant: "and is_public = true" left out)
EvPollVotable_any(pl, p) == p \in DOMAIN pl

\* "if v_user is null" and "select exists(... where id = p_poll_id and is_public = true)"
EvPollVotable(pl, p) == p \in DOMAIN pl /\ pl[p].is_public

EvCheckPoll(r) ==
  /\ req[r].pc = "ev_poll"
  /\ req' = IF req[r].user = NoUser THEN Finish(r, Failure("AUTH_REQUIRED"))
            ELSE IF ~ EvPollVotable(polls, req[r].poll) THEN Finish(r, Failure("POLL_NOT_FOUND"))
            ELSE Goto(r, "ev_option")
  /\ UNCHANGED <<polls, poll_options, votes, nextVoteId, dbNow>>

\* (faulty variant: only "v_option_poll is null" is tested)
OptionBelongsToPoll_exists(po, o, p) == o \in DOMAIN po

\* "select o.poll_id into v_option_poll ...; if v_option_poll is null or v_option_poll <> p_poll_id"
OptionBelongsToPoll(po, o, p) == o \in DOMAIN po /\ po[o].poll_id = p

EvCheckOption(r) ==
  /\ req[r].pc = "ev_option"
  /\ req' = IF ~ OptionBelongsToPoll(poll_options, req[r].option, req[r].poll)
            THEN Finish(r, Failure("INVALID_OPTION"))
            ELSE Goto(r, "ev_voted")
  /\ UNCHANGED <<polls, poll_options, votes, nextVoteId, dbNow>>

\* "select public.user_has_voted(p_poll_id, v_user) into v_user_has_voted;
\*  if v_user_has_voted and not p_allow_update"
EvCheckVoted(r) ==
  /\ req[r].pc = "ev_voted"
  /\ LET seen == user_has_voted(votes, req[r].poll, req[r].user)
     IN req' = IF seen /\ ~ req[r].allow
               THEN [req EXCEPT ![r].pc = "done", ![r].seen = seen,
                                ![r].result = Failure("ALREADY_VOTED")]
               ELSE [req EXCEPT ![r].pc = "ev_write", ![r].seen = seen]
  /\ UNCHANGED <<polls, poll_options, votes, nextVoteId, dbNow>>

\* (faulty variant: no "when unique_violation" branch)
EvException_raw(err) == "VOTE_ERROR"

\* the exception section of cast_vote_enhanced
EvException(err) == IF err = "unique_violation" THEN "ALREADY_VOTED" ELSE "VOTE_ERROR"

\* (faulty variant: the row is deleted first and written anew by a later insert)
UpdateVoteRows_delete_first(vs, p, u, o, t) == {v \in vs : ~ (v.poll_id = p /\ v.user_id = u)}

\* "update public.votes set option_id = p_option_id, created_at = now()
\*  where poll_id = p_poll_id and user_id = v_user returning id into v_vote_id"
UpdateVoteRows(vs, p, u, o, t) ==
  {IF v.poll_id = p /\ v.user_id = u THEN [v EXCEPT !.option_id = o, !.created_at = t] ELSE v
     : v \in vs}

ReturnedId(rows) == IF rows = {} THEN NoVoteId ELSE (CHOOSE v \in rows : TRUE).id

\* The insert-or-update statement, the return and the commit of the call.
EvWrite(r) ==
  /\ req[r].pc = "ev_write"
  /\ LET p == req[r].poll
         o == req[r].option
         u == req[r].user
     IN IF req[r].seen /\ req[r].allow
        THEN LET rows == RowsOfPair(votes, p, u)
             IN IF rows # {} /\ o \notin DOMAIN poll_options
                THEN /\ req' = Finish(r, Failure(EvException("foreign_key_violation")))
                     /\ UNCHANGED <<polls, poll_options, votes, nextVoteId, dbNow>>
                ELSE /\ votes' = UpdateVoteRows(votes, p, u, o, dbNow)
                     /\ req' = Finish(r, Success("UPDATED", ReturnedId(rows)))
                     /\ UNCHANGED <<polls, poll_options, nextVoteId, dbNow>>
        ELSE LET ins == InsertVote(polls, poll_options, votes, p, o, u, Definer)
             IN IF ins.err = "ok"
                THEN /\ votes' = ins.votes
                     /\ polls' = ins.polls
                     /\ nextVoteId' = nextVoteId + 1
                     /\ req' = Finish(r, Success("INSERTED", ins.id))
                     /\ UNCHANGED <<poll_options, dbNow>>
                ELSE /\ req' = Finish(r, Failure(EvException(ins.err)))
                     /\ UNCHANGED <<polls, poll_options, votes, nextVoteId, dbNow>>

\* -------------------------------------------------- executeVote / cast_vote
\* executeVote(supabase, pollId, optionId): the rpc call of cast_vote
executeVote(r, u, p, o) ==
  /\ Free(r)
  /\ req' = [req EXCEPT ![r] = [Idle EXCEPT !.kind = "cast_vote", !.pc = "cv_poll", !.user = u,
                                            !.poll = p, !.option = o]]
  /\ UNCHANGED <<polls, poll_options, votes, nextVoteId, dbNow>>

\* "if v_user is null ... raise" and "select exists(select 1 from public.polls where id = p_poll_id)"
CvCheckPoll(r) ==
  /\ req[r].pc = "cv_poll"
  /\ req' = IF req[r].user = NoUser THEN Finish(r, Failure("NOT_AUTHENTICATED"))
            ELSE IF req[r].poll \notin DOMAIN polls THEN Finish(r, Failure("POLL_DOES_NOT_EXIST"))
            ELSE Goto(r, "cv_option")
  /\ UNCHANGED <<polls, poll_options, votes, nextVoteId, dbNow>>

CvCheckOption(r) ==
  /\ req[r].pc = "cv_option"
  /\ req' = IF ~ OptionBelongsToPoll(poll_options, req[r].option, req[r].poll)
            THEN Finish(r, Failure("OPTION_NOT_IN_POLL"))
            ELSE Goto(r, "cv_upsert")
  /\ UNCHANGED <<polls, poll_options, votes, nextVoteId, dbNow>>

\* (faulty variant: the conflict row is looked up by the poll alone)
UpsertConflictRows_whole_poll(vs, p, u, o) ==
  {IF v.poll_id = p THEN [v EXCEPT !.option_id = o] ELSE v : v \in vs}

\* "on conflict (poll_id, user_id) do update set option_id = excluded.option_id"
UpsertConflictRows(vs, p, u, o) ==
  {IF v.poll_id = p /\ v.user_id = u THEN [v EXCEPT !.option_id = o] ELSE v : v \in vs}

\* "insert into public.votes ... on conflict (poll_id, user_id) do update ..."
CvUpsert(r) ==
  /\ req[r].pc = "cv_upsert"
  /\ LET p == req[r].poll
         o == req[r].option
         u == req[r].user
         row == [id |-> nextVoteId, poll_id |-> p, option_id |-> o, user_id |-> u,
                 created_at |-> dbNow]
     IN IF ~ votes_foreign_keys(polls, poll_options, row)
        THEN /\ req' = Finish(r, Failure("VOTE_FAILED"))
             /\ UNCHANGED <<polls, poll_options, votes, nextVoteId, dbNow>>
        ELSE IF RowsOfPair(votes, p, u) # {}
        THEN /\ votes' = UpsertConflictRows(votes, p, u, o)
             /\ req' = Finish(r, Success("VOTED", NoVoteId))
             /\ UNCHANGED <<polls, poll_options, nextVoteId, dbNow>>
        ELSE LET ins == InsertVote(polls, poll_options, votes, p, o, u, Definer)
             IN /\ ins.err = "ok"
                /\ votes' = ins.votes
                /\ polls' = ins.polls
                /\ nextVoteId' = nextVoteId + 1
                /\ req' = Finish(r, Success("VOTED", NoVoteId))
                /\ UNCHANGED <<poll_options, dbNow>>


\* ------------------------------------- voteAction of dashboard/real-time/actions.ts
\* Every supabase call is a statement of its own, run as the signed-in user
\* under row level security.
dashboardVoteAction(r, u, p, o) ==
  /\ Free(r)
  /\ req' = [req EXCEPT ![r] = [Idle EXCEPT !.kind = "dashboard", !.pc = "d_check", !.user = u,
                                            !.poll = p, !.option = o]]
  /\ UNCHANGED <<polls, poll_options, votes, nextVoteId, dbNow>>

\* getUser(), then "from('votes').select('id').eq('poll_id', ..).eq('user_id', ..).single()"
DashCheck(r) ==
  /\ req[r].pc = "d_check"
  /\ LET u == req[r].user
         existingVote == RowsOfPair(votes_select_owner_user_or_public(polls, votes, u),
                                    req[r].poll, u)
     IN req' = IF u = NoUser THEN Finish(r, Failure("LOGIN_REQUIRED"))
               ELSE IF existingVote # {} THEN Finish(r, Failure("ALREADY_VOTED"))
               ELSE Goto(r, "d_insert")
  /\ UNCHANGED <<polls, poll_options, votes, nextVoteId, dbNow>>

\* "from('votes').insert({poll_id, option_id, user_id})"
DashInsert(r) ==
  /\ req[r].pc = "d_insert"
  /\ LET ins == InsertVote(polls, poll_options, votes, req[r].poll, req[r].option,
                           req[r].user, req[r].user)
     IN IF ins.err = "ok"
        THEN /\ votes' = ins.votes
             /\ polls' = ins.polls
             /\ nextVoteId' = nextVoteId + 1
             /\ req' = Goto(r, "d_option")
             /\ UNCHANGED <<poll_options, dbNow>>
        ELSE /\ req' = Finish(r, Failure("RECORD_VOTE_FAILED"))
             /\ UNCHANGED <<polls, poll_options, votes, nextVoteId, dbNow>>

\* "from('poll_options').update({ votes: raw('votes + 1') }).eq('id', optionId)"
DashUpdateOption(r) ==
  /\ req[r].pc = "d_option"
  /\ LET o == req[r].option
     IN poll_options' =
          IF o \in DOMAIN poll_options /\ options_modify_only_owner(polls, poll_options, o, req[r].user)
          THEN [poll_options EXCEPT ![o].votes = @ + 1]
          ELSE poll_options
  /\ req' = Goto(r, "d_poll")
  /\ UNCHANGED <<polls, votes, nextVoteId, dbNow>>

\* "from('polls').update({ total_votes: raw('total_votes + 1') }).eq('id', pollId)"
DashUpdatePoll(r) ==
  /\ req[r].pc = "d_poll"
  /\ LET p == req[r].poll
     IN polls' =
          IF p \in DOMAIN polls /\ polls_update_only_owner(polls, p, req[r].user)
          THEN [polls EXCEPT ![p].total_votes = @ + 1]
          ELSE polls
  /\ req' = Finish(r, Success("VOTED", NoVoteId))
  /\ UNCHANGED <<poll_options, votes, nextVoteId, dbNow>>

\* "if (optionError) return ..." and "if (pollError) return ...": a counter
\* statement that fails ends the action after the vote row is written.
DashCounterError(r) ==
  /\ req[r].pc \in {"d_option", "d_poll"}
  /\ req' = Finish(r, Failure(IF req[r].pc = "d_option" THEN "UPDATE_COUNT_FAILED"
                                                        ELSE "UPDATE_TOTAL_FAILED"))
  /\ UNCHANGED <<polls, poll_options, votes, nextVoteId, dbNow>>

\* ----------------------------------------------------------------- deletions
\* "delete from public.votes" of one row by user u, under the policy
\* votes_delete_only_owner_or_poll_owner; trg_update_poll_vote_count runs
\* after the delete with new = null.
DeleteVote(u, v) ==
  /\ v \in votes
  /\ votes_delete_only_owner_or_poll_owner(polls, v, u)
  /\ votes' = votes \ {v}
  /\ polls' = update_poll_vote_count(polls, votes \ {v}, "null", u)
  /\ UNCHANGED <<poll_options, nextVoteId, dbNow, req>>

Restrict(f, S) == [x \in S |-> f[x]]

\* deletePollAction(formData): "from('polls').delete().eq('id', pollId)" as
\* user u; the foreign keys cascade to the poll's options and votes.
deletePollAction(u, p) ==
  /\ u # NoUser
  /\ p \in DOMAIN polls
  /\ polls_delete_only_owner(polls, p, u)
  /\ LET gone == {o \in DOMAIN poll_options : poll_options[o].poll_id = p}
         left == {v \in votes : v.poll_id # p /\ v.option_id \notin gone}
     IN /\ polls' = Restrict(polls, DOMAIN polls \ {p})
        /\ poll_options' = Restrict(poll_options, DOMAIN poll_options \ gone)
        /\ votes' = left
  /\ UNCHANGED <<nextVoteId, dbNow, req>>

\* the database clock advances
DbTick ==
  /\ dbNow < MaxDbTime
  /\ dbNow' = dbNow + 1
  /\ UNCHANGED <<polls, poll_options, votes, nextVoteId, req>>
  /\ UNCHANGED rlVars

\* --------------------------------------------------------- the ledger, Spec
Next ==
  \/ \E r \in DOMAIN req, u \in Callers, b \in Ballots, a \in BOOLEAN :
       castVote(r, u, b[1], b[2], a) /\ UNCHANGED rlVars
  \/ \E r \in DOMAIN req, u \in Callers, b \in Ballots : executeVote(r, u, b[1], b[2]) /\ UNCHANGED rlVars
  \/ \E r \in DOMAIN req, u \in Callers, b \in Ballots : dashboardVoteAction(r, u, b[1], b[2]) /\ UNCHANGED rlVars
  \/ \E r \in DOMAIN req : EvCheckPoll(r) /\ UNCHANGED rlVars
  \/ \E r \in DOMAIN req : EvCheckOption(r) /\ UNCHANGED rlVars
  \/ \E r \in DOMAIN req : EvCheckVoted(r) /\ UNCHANGED rlVars
  \/ \E r \in DOMAIN req : EvWrite(r) /\ UNCHANGED rlVars
  \/ \E r \in DOMAIN req : CvCheckPoll(r) /\ UNCHANGED rlVars
  \/ \E r \in DOMAIN req : CvCheckOption(r) /\ UNCHANGED rlVars
  \/ \E r \in DOMAIN req : CvUpsert(r) /\ UNCHANGED rlVars
  \/ \E r \in DOMAIN req : DashCheck(r) /\ UNCHANGED rlVars
  \/ \E r \in DOMAIN req : DashInsert(r) /\ UNCHANGED rlVars
  \/ \E r \in DOMAIN req : DashUpdateOption(r) /\ UNCHANGED rlVars
  \/ \E r \in DOMAIN req : DashUpdatePoll(r) /\ UNCHANGED rlVars
  \/ \E r \in DOMAIN req : DashCounterError(r) /\ UNCHANGED rlVars
  \/ \E u \in Users, v \in votes : DeleteVote(u, v) /\ UNCHANGED rlVars
  \/ \E u \in Users, p \in PollIds : deletePollAction(u, p) /\ UNCHANGED rlVars

Spec == Init /\ [][Next]_vars


\* with the database clock running
SpecTimed == Init /\ [][Next \/ DbTick]_vars

\* ----------------------------------- the casts on one open poll, SpecCast
\* The signed-in users cast on the public poll p1 through the three entry
\* points, for either of its options, and delete vote rows.
CastBallots == {<<"p1", "o1">>, <<"p1", "o2">>}

NextCast ==
  \/ \E r \in DOMAIN req, u \in Users, b \in CastBallots, a \in BOOLEAN :
       castVote(r, u, b[1], b[2], a) /\ UNCHANGED rlVars
  \/ \E r \in DOMAIN req, u \in Users, b \in CastBallots : executeVote(r, u, b[1], b[2]) /\ UNCHANGED rlVars
  \/ \E r \in DOMAIN req, u \in Users, b \in CastBallots : dashboardVoteAction(r, u, b[1], b[2]) /\ UNCHANGED rlVars
  \/ \E r \in DOMAIN req : EvCheckPoll(r) /\ UNCHANGED rlVars
  \/ \E r \in DOMAIN req : EvCheckOption(r) /\ UNCHANGED rlVars
  \/ \E r \in DOMAIN req : EvCheckVoted(r) /\ UNCHANGED rlVars
  \/ \E r \in DOMAIN req : EvWrite(r) /\ UNCHANGED rlVars
  \/ \E r \in DOMAIN req : CvCheckPoll(r) /\ UNCHANGED rlVars
  \/ \E r \in DOMAIN req : CvCheckOption(r) /\ UNCHANGED rlVars
  \/ \E r \in DOMAIN req : CvUpsert(r) /\ UNCHANGED rlVars
  \/ \E r \in DOMAIN req : DashCheck(r) /\ UNCHANGED rlVars
  \/ \E r \in DOMAIN req : DashInsert(r) /\ UNCHANGED rlVars
  \/ \E r \in DOMAIN req : DashUpdateOption(r) /\ UNCHANGED rlVars
  \/ \E r \in DOMAIN req : DashUpdatePoll(r) /\ UNCHANGED rlVars
  \/ \E r \in DOMAIN req : DashCounterError(r) /\ UNCHANGED rlVars
  \/ \E u \in Users, v \in votes : DeleteVote(u, v) /\ UNCHANGED rlVars

SpecCast == Init /\ [][NextCast]_vars

\* ------------------------------------------ the race of first casts, SpecRace
\* RaceN calls of castVote on the public poll p1 are in flight together before
\* anybody has voted: each by one of the users, for one of the poll's options,
\* with or without allowUpdate.
RaceCalls ==
  {[Idle EXCEPT !.kind = "enhanced", !.pc = "ev_poll", !.user = u, !.poll = "p1",
                !.option = o, !.allow = a] : u \in Users, o \in {"o1", "o2"}, a \in BOOLEAN}

InitRace ==
  /\ DbInit
  /\ req \in [1 .. RaceN -> RaceCalls]
  /\ RateLimitInit

NextRace ==
  \/ \E r \in DOMAIN req : EvCheckPoll(r) /\ UNCHANGED rlVars
  \/ \E r \in DOMAIN req : EvCheckOption(r) /\ UNCHANGED rlVars
  \/ \E r \in DOMAIN req : EvCheckVoted(r) /\ UNCHANGED rlVars
  \/ \E r \in DOMAIN req : EvWrite(r) /\ UNCHANGED rlVars

SpecRace == InitRace /\ [][NextRace]_vars

\* ------------------------------------------------------ the rate limiter alone
\* the keys SpecRL calls on: two actions of one user and one of another
RlCallers == {<<"u1", "vote">>, <<"u1", "create_poll">>, <<"u2", "create_poll">>}

NextRL ==
  \/ \E k \in RlCallers, success \in BOOLEAN : CheckRateLimit(k[1], k[2], success)
  \/ \E k \in RlCallers : ClearRateLimit(k[1], k[2])
  \/ \E u \in Users : ClearRateLimit(u, "all")
  \/ CleanupExpiredRateLimits
  \/ Tick

SpecRL == Init /\ [][NextRL]_vars


\* --------------------------------------- voteAction of app/polls/[id]/actions.ts
\* voteAction(pollId, optionId, csrfToken) by caller u, whose csrf-token
\* cookie holds `cookie`; "" is the absent token or cookie.  A slot is taken
\* again once its request has ended.
voteAction(r, u, p, o, token, cookie) ==
  /\ req[r].pc \in {"idle", "done"}
  /\ req' = [req EXCEPT ![r] = [Idle EXCEPT !.kind = "voteAction", !.pc = "va_validate",
                                            !.user = u, !.poll = p, !.option = o,
                                            !.token = token, !.cookie = cookie]]
  /\ UNCHANGED dbVars
  /\ UNCHANGED rlVars

\* (faulty variant: a request without the cookie passes)
validateCSRFToken_cookie_optional(token, storedToken) ==
  IF storedToken = "" THEN TRUE ELSE storedToken = token

\* validateCSRFToken(token) against the stored cookie
validateCSRFToken(token, storedToken) ==
  IF storedToken = "" \/ token = "" THEN FALSE ELSE storedToken = token

\* (faulty variant: the option id is not validated)
validateVoteInput_poll_only(p, o) == p # "not-a-uuid"

\* voteSchema: both ids are uuids
validateVoteInput(p, o) == p # "not-a-uuid" /\ o # "not-a-uuid"

\* Steps 1 and 2: the CSRF token if one is given, then the zod schema
VaValidate(r) ==
  /\ req[r].pc = "va_validate"
  /\ req' = IF req[r].token # "" /\ ~ validateCSRFToken(req[r].token, req[r].cookie)
            THEN Finish(r, Failure("INVALID_CSRF"))
            ELSE IF ~ validateVoteInput(req[r].poll, req[r].option)
            THEN Finish(r, Failure("INVALID_INPUT"))
            ELSE Goto(r, "va_auth")
  /\ UNCHANGED dbVars
  /\ UNCHANGED rlVars

\* "!checkRateLimit(user.id, 'vote')": checkRateLimit returns an object, and
\* an object is truthy whatever its fields hold
JsToBoolean(object) == TRUE

\* Steps 3 to 5: ensureAuthenticated, then checkRateLimit and the call of
\* executeVote in one synchronous stretch
VaAuth(r) ==
  /\ req[r].pc = "va_auth"
  /\ LET u == req[r].user
     IN IF u = NoUser
        THEN /\ req' = Finish(r, Failure("AUTH_REQUIRED"))
             /\ UNCHANGED rlVars
        ELSE /\ RateLimitCall(u, "vote", TRUE)
             /\ UNCHANGED now
             /\ IF ~ JsToBoolean(rlLast'.result)
                THEN /\ req' = Finish(r, Failure("RATE_LIMITED"))
                     /\ UNCHANGED executed
                ELSE /\ InWindow(rateLimitMap, RateLimitKey(u, "vote"), now) => executed[u] < MaxExec
                     /\ req' = Goto(r, "cv_poll")
                     /\ executed' = [executed EXCEPT ![u] =
                           (IF InWindow(rateLimitMap, RateLimitKey(u, "vote"), now) THEN @ ELSE 0) + 1]
  /\ UNCHANGED dbVars

\* the callers of SpecVA: one signed-in user, whose requests overlap, and an
\* anonymous visitor
VaCallers == {"u1", NoUser}

NextVA ==
  \/ \E r \in DOMAIN req, u \in VaCallers : voteAction(r, u, "p1", "o1", "", "")
  \/ \E r \in DOMAIN req : VaValidate(r)
  \/ \E r \in DOMAIN req : VaAuth(r)
  \/ \E r \in DOMAIN req : CvCheckPoll(r) /\ UNCHANGED rlVars
  \/ \E r \in DOMAIN req : CvCheckOption(r) /\ UNCHANGED rlVars
  \/ \E r \in DOMAIN req : CvUpsert(r) /\ UNCHANGED rlVars
  \/ Tick

SpecVA == Init /\ [][NextVA]_vars


\* ====================================================== properties, rate limiter
\* the calls the window of the last call's key had admitted before it
AdmittedBefore == IF rlLast.had /\ rlLast.t <= rlLast.priorReset THEN rlLast.priorAdmitted ELSE 0

\* C8: for every (user, action) key, a counted checkRateLimit call (success
\* left at its default, true) is allowed exactly when its window, which starts
\* at the call that finds no entry or an expired one, has admitted fewer than
\* maxRequests calls before it: the first maxRequests calls of a window are
\* allowed, every further one in the window is refused, and the first call
\* after the window is allowed again and starts the count at one.
C8_RateLimitBoundary ==
  (rlLast.called /\ rlLast.success) =>
    LET config == RATE_LIMIT_CONFIGS[rlLast.key[2]]
        elapsed == ~ rlLast.had \/ rlLast.t > rlLast.priorReset
    IN /\ rlLast.result.allowed <=> AdmittedBefore < config.maxRequests
       /\ AdmittedBefore <= config.maxRequests
       /\ elapsed => /\ rlLast.result.allowed
                     /\ rateLimitMap[rlLast.key].count = 1
                     /\ rateLimitMap[rlLast.key].resetTime = rlLast.t + config.windowMs

\* an exhausted window has run out and the next call of the key is let in
C8_Witness_ResetAfterExhaustion ==
  /\ rlLast.called /\ rlLast.success
  /\ rlLast.had /\ rlLast.t > rlLast.priorReset
  /\ rlLast.priorAdmitted = RATE_LIMIT_CONFIGS[rlLast.key[2]].maxRequests
  /\ rlLast.result.allowed

\* C9: a checkRateLimit call that returns allowed = false leaves the whole map
\* as it was, the key's count and resetTime included; a counted call that is
\* allowed leaves the key's count one above the count of the current window
\* (zero when the call starts the window), keeps the resetTime of a running
\* window and touches no other key.
C9_RejectedCallLeavesEntry ==
  [][rlLast'.called =>
       LET key == rlLast'.key
           running == InWindow(rateLimitMap, key, now)
       IN /\ ~ rlLast'.result.allowed => rateLimitMap' = rateLimitMap
          /\ (rlLast'.result.allowed /\ rlLast'.success) =>
               /\ rateLimitMap'[key].count = (IF running THEN rateLimitMap[key].count ELSE 0) + 1
               /\ running => rateLimitMap'[key].resetTime = rateLimitMap[key].resetTime
               /\ \A k \in DOMAIN rateLimitMap \ {key} :
                    k \in DOMAIN rateLimitMap' /\ rateLimitMap'[k] = rateLimitMap[k]]_vars

\* a call has just been refused on a full window
C9_Witness_Rejected ==
  /\ rlLast.called /\ ~ rlLast.result.allowed
  /\ rateLimitMap[rlLast.key].count = RATE_LIMIT_CONFIGS[rlLast.key[2]].maxRequests

\* C7: no user has more than 5 casts handed to executeVote by voteAction within
\* one 60 second window: the sixth attempt is turned away as rate limited.
C7_SixthAttemptRejected ==
  \A u \in Users : executed[u] <= RATE_LIMIT_CONFIGS["vote"].maxRequests

C1_OneRowPerPollAndUser ==
  \A p \in PollIds, u \in Users : Cardinality(RowsOfPair(votes, p, u)) <= 1

\* a cast that found no row of its user lost the insert to a concurrent cast
\* on the uniqueness constraint
C1_Witness_InsertRefused ==
  \E r \in DOMAIN req :
    /\ req[r].kind = "enhanced" /\ req[r].pc = "done"
    /\ ~ req[r].seen /\ req[r].result.code = "ALREADY_VOTED"
    /\ Cardinality(RowsOfPair(votes, req[r].poll, req[r].user)) = 1

RaceOf(u) == {r \in DOMAIN req : req[r].user = u}
RaceOver == \A r \in DOMAIN req : req[r].pc = "done"

\* C2: when the concurrent first casts of one user on the poll, all with
\* allowUpdate = false, have all returned, exactly one of them has returned
\* success, as an insert, every other has returned ALREADY_VOTED, and the user
\* has one row; once all casts are over the poll's total_votes has risen by
\* one for each user that cast.
C2_ExactlyOneInserted ==
  /\ \A u \in Users :
       (RaceOf(u) # {} /\ \A r \in RaceOf(u) : ~ req[r].allow /\ req[r].pc = "done") =>
          /\ Cardinality({r \in RaceOf(u) : req[r].result.success}) = 1
          /\ \A r \in RaceOf(u) :
               req[r].result.code = IF req[r].result.success THEN "INSERTED" ELSE "ALREADY_VOTED"
          /\ Cardinality(RowsOfPair(votes, "p1", u)) = 1
  /\ RaceOver => polls["p1"].total_votes = Cardinality({req[r].user : r \in DOMAIN req})

\* all RaceN casts are one user's, without allowUpdate, and over, and one of
\* them lost at the insert after finding no row
C2_Witness_RaceDecided ==
  /\ RaceOver
  /\ \E u \in Users : RaceOf(u) = DOMAIN req
  /\ \A r \in DOMAIN req : ~ req[r].allow
  /\ \E r \in DOMAIN req : ~ req[r].seen /\ req[r].result.code = "ALREADY_VOTED"

\* C3: a cast with allowUpdate = true that found no row of its user returns
\* success, also when a concurrent cast of the user inserted first.
C3_LoserRetriedAsUpdate ==
  \A r \in DOMAIN req :
    (req[r].kind = "enhanced" /\ req[r].pc = "done" /\ req[r].allow /\ ~ req[r].seen) =>
       req[r].result.success

\* a request finishes a cast with success, or a vote row is deleted
CastCompleted == \E r \in DOMAIN req : req[r].pc # "done" /\ req'[r].pc = "done" /\ req'[r].result.success
VoteDeleted == votes' # votes /\ votes' \subseteq votes

\* C4: after every step that completes a cast or deletes a vote row, the
\* total_votes of each poll is the number of ledger rows of the poll.
C4_TotalVotesMatchesLedger ==
  [][(CastCompleted \/ VoteDeleted) =>
       \A p \in DOMAIN polls' : polls'[p].total_votes = Cardinality(RowsOfPoll(votes', p))]_vars

\* C5: after every step that completes a cast, the votes counter of each
\* option is the number of ledger rows of the option.
C5_OptionCountersMatchLedger ==
  [][CastCompleted =>
       \A o \in DOMAIN poll_options' :
         poll_options'[o].votes = Cardinality(RowsOfOption(votes', o))]_vars

\* C6: no state shows the row of a dashboard cast that is between its
\* statements, or that ended at a failed counter statement, without the
\* counters of its option and poll covering the rows of the ledger.
C6_NoHalfCast ==
  \A r \in DOMAIN req :
    (/\ req[r].kind = "dashboard"
     /\ \/ req[r].pc \in {"d_option", "d_poll"}
        \/ req[r].result.code \in {"UPDATE_COUNT_FAILED", "UPDATE_TOTAL_FAILED"}
     /\ req[r].poll \in DOMAIN polls /\ req[r].option \in DOMAIN poll_options) =>
       /\ poll_options[req[r].option].votes >= Cardinality(RowsOfOption(votes, req[r].option))
       /\ polls[req[r].poll].total_votes >= Cardinality(RowsOfPoll(votes, req[r].poll))


\* ------------------------------------------------------------ get_poll_stats
\* The one query of get_poll_stats puts count(v.id) inside
\* json_agg(json_build_object(...)) at the same query level: PostgreSQL
\* refuses it when the function runs ("aggregate function calls cannot be
\* nested"), whatever the poll and the caller are.
get_poll_stats(po, vs, p, u) ==
  [error |-> "aggregate function calls cannot be nested"]

\* getPollStats(pollId): "if (error) { ...; return null; } return data"
NoStats == [ok |-> FALSE]
getPollStats(po, vs, p, u) ==
  LET reply == get_poll_stats(po, vs, p, u)
  IN IF reply.error # "" THEN NoStats ELSE [ok |-> TRUE, data |-> reply]

\* validateVoteOperation(pollId, optionId, hasVoted, allowUpdate).valid
validateVoteOperation(pollId, optionId, hasVoted, allowUpdate) ==
  IF pollId = "" \/ optionId = "" THEN FALSE
  ELSE IF hasVoted /\ ~ allowUpdate THEN FALSE
  ELSE TRUE

\* ------------------------------------------ one request at a time, SpecGate
\* The requests of SpecGate come one after the other, with every kind of
\* argument: a good option, the option of another poll, an option and a poll
\* that do not exist, the private poll, and ids that are no uuids; without a
\* CSRF token, with the cookie's token, with another one, and with a token but
\* no cookie.
GateBallots == {<<"p1", "o1">>, <<"p1", "o3">>, <<"p1", "o9">>, <<"p9", "o1">>, <<"p2", "o3">>}
MalformedBallots == {<<"not-a-uuid", "o1">>, <<"p1", "not-a-uuid">>}
GateTokens == {<<"", "">>, <<"t1", "t1">>, <<"t1", "t2">>, <<"t1", "">>}

\* the caller has the result: the next request may come
Return(r) ==
  /\ req[r].pc = "done"
  /\ req' = [req EXCEPT ![r] = Idle]
  /\ UNCHANGED dbVars
  /\ UNCHANGED rlVars

NextGate ==
  \/ \E u \in VaCallers, b \in GateBallots \cup MalformedBallots, t \in GateTokens :
       voteAction(1, u, b[1], b[2], t[1], t[2])
  \/ \E u \in VaCallers, b \in GateBallots, a \in BOOLEAN :
       castVote(1, u, b[1], b[2], a) /\ UNCHANGED rlVars
  \/ VaValidate(1)
  \/ VaAuth(1)
  \/ CvCheckPoll(1) /\ UNCHANGED rlVars
  \/ CvCheckOption(1) /\ UNCHANGED rlVars
  \/ CvUpsert(1) /\ UNCHANGED rlVars
  \/ EvCheckPoll(1) /\ UNCHANGED rlVars
  \/ EvCheckOption(1) /\ UNCHANGED rlVars
  \/ EvCheckVoted(1) /\ UNCHANGED rlVars
  \/ EvWrite(1) /\ UNCHANGED rlVars
  \/ Return(1)

SpecGate == Init /\ [][NextGate]_vars


\* ======================================================== properties, the gates
BadToken(q) == q.token # "" /\ (q.cookie = "" \/ q.cookie # q.token)
MalformedIds(q) == q.poll = "not-a-uuid" \/ q.option = "not-a-uuid"
NoSuchPoll(q) == q.poll \notin DOMAIN polls
ForeignOption(q) == q.option \notin DOMAIN poll_options \/ poll_options[q.option].poll_id # q.poll

FailsAGate(q) ==
  IF q.kind = "voteAction"
  THEN BadToken(q) \/ MalformedIds(q) \/ q.user = NoUser \/ NoSuchPoll(q) \/ ForeignOption(q)
  ELSE q.user = NoUser \/ NoSuchPoll(q) \/ ~ polls[q.poll].is_public \/ ForeignOption(q)

TablesChange == votes' # votes \/ polls' # polls \/ poll_options' # poll_options

\* C12: a step of a cast through voteAction or cast_vote_enhanced that changes
\* the ledger or a counter is the step that ends the cast with success, and
\* the cast's arguments pass every gate: a cast that ends in a failure, at
\* whichever gate, has changed nothing.
C12_FailedCastChangesNothing ==
  [][\A r \in DOMAIN req :
       (req'[r] # req[r] /\ TablesChange) =>
          /\ req'[r].pc = "done" /\ req'[r].result.success
          /\ ~ FailsAGate(req[r])]_vars

\* a cast has been refused at a gate when the ledger already held a row
C12_Witness_RefusedOnFilledLedger ==
  \E r \in DOMAIN req :
    /\ req[r].pc = "done" /\ votes # {}
    /\ req[r].result.code \in {"AUTH_REQUIRED", "INVALID_CSRF", "INVALID_INPUT",
                                "POLL_NOT_FOUND", "POLL_DOES_NOT_EXIST",
                                "INVALID_OPTION", "OPTION_NOT_IN_POLL"}

\* C17: an authenticated cast on a poll that takes votes, for an option that
\* does not exist or is another poll's, ends with the invalid-option outcome
\* of its entry point, and the ledger holds no row of the caller for that
\* poll and option.
C17_ForeignOptionRefused ==
  \A r \in DOMAIN req :
    (/\ req[r].kind \in {"voteAction", "enhanced"} /\ req[r].pc = "done"
     /\ req[r].user # NoUser /\ ~ BadToken(req[r]) /\ ~ MalformedIds(req[r])
     /\ ~ NoSuchPoll(req[r])
     /\ req[r].kind = "enhanced" => polls[req[r].poll].is_public
     /\ ForeignOption(req[r])) =>
       /\ req[r].result.code = IF req[r].kind = "enhanced" THEN "INVALID_OPTION"
                                                           ELSE "OPTION_NOT_IN_POLL"
       /\ ~ req[r].result.success
       /\ ~ \E v \in votes : /\ v.user_id = req[r].user /\ v.poll_id = req[r].poll
                             /\ v.option_id = req[r].option

\* a cast for the option of another poll has been refused
C17_Witness_OtherPollsOption ==
  \E r \in DOMAIN req :
    /\ req[r].pc = "done" /\ req[r].poll = "p1" /\ req[r].option = "o3"
    /\ req[r].result.code \in {"INVALID_OPTION", "OPTION_NOT_IN_POLL"}


\* ===================================================== properties, the casts
\* a step ends the cast of slot r
Ends(r) == req[r].pc # "done" /\ req'[r].pc = "done"

\* C13: whenever a cast through cast_vote_enhanced with allowUpdate = false,
\* whose arguments pass the gates, ends while its user has a row for the poll,
\* it ends with ALREADY_VOTED and the step changes no table: the row keeps
\* its option and timestamp, the counters stay and getPollStats answers as
\* before; validateVoteOperation refuses the same operation on the client.
C13_RepeatedCastRefused ==
  [][\A r \in DOMAIN req :
       (/\ req[r].kind = "enhanced" /\ Ends(r)
        /\ ~ req[r].allow /\ ~ FailsAGate(req[r])
        /\ RowsOfPair(votes, req[r].poll, req[r].user) # {}) =>
          /\ req'[r].result = Failure("ALREADY_VOTED")
          /\ ~ TablesChange
          /\ getPollStats(poll_options', votes', req[r].poll, req[r].user)
               = getPollStats(poll_options, votes, req[r].poll, req[r].user)
          /\ ~ validateVoteOperation(req[r].poll, req[r].option, TRUE, req[r].allow)]_vars

\* a user whose row is for one option has cast for the other without
\* allowUpdate and has been refused
C13_Witness_SecondCastRefused ==
  \E r \in DOMAIN req :
    /\ req[r].kind = "enhanced" /\ req[r].pc = "done" /\ ~ req[r].allow /\ req[r].seen
    /\ req[r].result.code = "ALREADY_VOTED"
    /\ \E v \in RowsOfPair(votes, req[r].poll, req[r].user) : v.option_id # req[r].option

\* C14: a cast with allowUpdate = true that ends while its user's row is for
\* another option of the poll ends with success as an update, and
\* getPollStats then shows the previous option one lower, the new option one
\* higher and the total as before.
C14_UpdateShiftsOptionCounts ==
  [][\A r \in DOMAIN req :
       (/\ req[r].kind = "enhanced" /\ Ends(r)
        /\ req[r].allow /\ ~ FailsAGate(req[r])
        /\ \E v \in RowsOfPair(votes, req[r].poll, req[r].user) : v.option_id # req[r].option) =>
          LET old == (CHOOSE v \in RowsOfPair(votes, req[r].poll, req[r].user) : TRUE).option_id
              before == getPollStats(poll_options, votes, req[r].poll, req[r].user)
              after == getPollStats(poll_options', votes', req[r].poll, req[r].user)
          IN /\ req'[r].result.success /\ req'[r].result.code = "UPDATED"
             /\ before.ok /\ after.ok
             /\ after.data.votes[old] = before.data.votes[old] - 1
             /\ after.data.votes[req[r].option] = before.data.votes[req[r].option] + 1
             /\ after.data.total_votes = before.data.total_votes]_vars

C16_FirstCastInserted ==
  [][\A r \in DOMAIN req :
       (/\ req[r].kind = "enhanced" /\ Ends(r)
        /\ ~ FailsAGate(req[r])
        /\ RowsOfPoll(votes, req[r].poll) = {}) =>
          LET after == getPollStats(poll_options', votes', req[r].poll, req[r].user)
          IN /\ req'[r].result.success /\ req'[r].result.code = "INSERTED"
             /\ req'[r].result.vote_id # NoVoteId
             /\ after.ok
             /\ \A o \in {x \in DOMAIN poll_options : poll_options[x].poll_id = req[r].poll} :
                  after.data.votes[o] = IF o = req[r].option THEN 1 ELSE 0
             /\ after.data.total_votes = 1
             /\ after.data.user_has_voted
             /\ after.data.user_vote_option_id = req[r].option]_vars

\* C18: the option of every ledger row is an option of the row's poll.
C18_RowOptionBelongsToPoll ==
  \A v \in votes :
    v.option_id \in DOMAIN poll_options /\ poll_options[v.option_id].poll_id = v.poll_id

\* C19: a cast through cast_vote_enhanced or cast_vote on a private poll does
\* not end with success, and changes no table.
C19_PrivatePollTakesNoVotes ==
  [][\A r \in DOMAIN req :
       (/\ req[r].kind \in {"enhanced", "cast_vote", "voteAction"}
        /\ req'[r] # req[r]
        /\ req[r].poll \in DOMAIN polls /\ ~ polls[req[r].poll].is_public) =>
          /\ ~ TablesChange
          /\ Ends(r) => ~ req'[r].result.success]_vars

\* C20: a cast through cast_vote_enhanced that passed the poll check and
\* reaches its write when the poll is gone ends with POLL_NOT_FOUND and
\* creates no row.
C20_DeletedPollFailsSafely ==
  [][\A r \in DOMAIN req :
       (/\ req[r].kind = "enhanced" /\ req[r].pc = "ev_write" /\ Ends(r)
        /\ req[r].poll \notin DOMAIN polls) =>
          /\ req'[r].result = Failure("POLL_NOT_FOUND")
          /\ votes' = votes]_vars


\* ============================================= properties, deletions and frames
\* C21: a voteAction request whose token is given and differs from the
\* caller's csrf-token cookie, or whose caller has no such cookie, ends at
\* its first step with the invalid-CSRF failure; no table and no rate-limit
\* entry changes.  A request without a token never gets that failure: its
\* first step goes on to the schema check, and from there to the identity
\* check when both ids are uuids.
C21_CsrfGate ==
  [][\A r \in DOMAIN req :
       (req[r].kind = "voteAction" /\ req[r].pc # "done" /\ req'[r] # req[r]) =>
          /\ BadToken(req[r]) =>
               /\ req'[r].pc = "done" /\ req'[r].result = Failure("INVALID_CSRF")
               /\ ~ TablesChange /\ rateLimitMap' = rateLimitMap
          /\ (req[r].token = "" /\ Ends(r)) => req'[r].result.code # "INVALID_CSRF"
          /\ (req[r].token = "" /\ req[r].pc = "va_validate") =>
               IF validateVoteInput(req[r].poll, req[r].option)
               THEN req'[r].pc = "va_auth"
               ELSE req'[r].result = Failure("INVALID_INPUT")]_vars

\* a signed-in caller without the cookie sent a token with an otherwise
\* valid vote and was refused
C21_Witness_TokenWithoutCookie ==
  \E r \in DOMAIN req :
    /\ req[r].kind = "voteAction" /\ req[r].pc = "done"
    /\ req[r].token # "" /\ req[r].cookie = ""
    /\ req[r].user # NoUser /\ ~ MalformedIds(req[r])
    /\ ~ NoSuchPoll(req[r]) /\ ~ ForeignOption(req[r])
    /\ req[r].result = Failure("INVALID_CSRF")
    /\ RowsOfPair(votes, req[r].poll, req[r].user) = {}


\* ------------------------------------- casts one after another, SpecTurns
\* The signed-in users cast on the public poll p1 through cast_vote_enhanced
\* and cast_vote; a slot is taken again once its request has returned, so
\* that a user casts any number of times, alone or beside other casts.
NextTurns ==
  \/ \E r \in DOMAIN req, u \in Users, b \in CastBallots, a \in BOOLEAN :
       castVote(r, u, b[1], b[2], a) /\ UNCHANGED rlVars
  \/ \E r \in DOMAIN req, u \in Users, b \in CastBallots :
       executeVote(r, u, b[1], b[2]) /\ UNCHANGED rlVars
  \/ \E r \in DOMAIN req : EvCheckPoll(r) /\ UNCHANGED rlVars
  \/ \E r \in DOMAIN req : EvCheckOption(r) /\ UNCHANGED rlVars
  \/ \E r \in DOMAIN req : EvCheckVoted(r) /\ UNCHANGED rlVars
  \/ \E r \in DOMAIN req : EvWrite(r) /\ UNCHANGED rlVars
  \/ \E r \in DOMAIN req : CvCheckPoll(r) /\ UNCHANGED rlVars
  \/ \E r \in DOMAIN req : CvCheckOption(r) /\ UNCHANGED rlVars
  \/ \E r \in DOMAIN req : CvUpsert(r) /\ UNCHANGED rlVars
  \/ \E r \in DOMAIN req : Return(r)

SpecTurns == Init /\ [][NextTurns]_vars

\* C22: a step of a cast by user U, through any of the entry points, creates
\* and modifies only rows of U: every row of another user is in the ledger
\* after the step exactly when it was before, with the same option and
\* timestamp.
C22_CastTouchesOwnRowOnly ==
  [][\A r \in DOMAIN req :
       req'[r] # req[r] =>
         \A v \in votes \cup votes' :
           v.user_id # req'[r].user => (v \in votes /\ v \in votes')]_vars

\* a user has changed their vote to one option while the older row of the
\* other user, for the other option of the same poll, is in the ledger
C22_Witness_UpdateBesideOthersRow ==
  \E r \in DOMAIN req :
    /\ req[r].pc = "done" /\ req[r].result.success
    /\ req[r].result.code = "UPDATED"
    /\ \E v \in votes, w \in votes :
         /\ v.user_id = req[r].user /\ v.poll_id = req[r].poll
         /\ v.option_id = req[r].option /\ w.id < v.id
         /\ w.user_id # req[r].user /\ w.poll_id = req[r].poll
         /\ w.option_id # req[r].option


\* ------------------------------------ casts beside poll deletions, SpecDelete
\* "from('polls').delete().eq('id', p)" run as role: the tables it leaves.
\* Row level security hides the poll from the statement unless the policy
\* polls_delete_only_owner passes; the foreign keys cascade.
DeletePollStatement(pl, po, vs, p, role) ==
  IF p \notin DOMAIN pl \/ ~ polls_delete_only_owner(pl, p, role)
  THEN [polls |-> pl, poll_options |-> po, votes |-> vs]
  ELSE LET gone == {o \in DOMAIN po : po[o].poll_id = p}
       IN [polls |-> Restrict(pl, DOMAIN pl \ {p}),
           poll_options |-> Restrict(po, DOMAIN po \ gone),
           votes |-> {v \in vs : v.poll_id # p /\ v.option_id \notin gone}]

\* deletePollAction(formData) by any caller u with poll_id = p ("" when the
\* field is missing), kept in a slot once it has returned: "if (!user)
\* return; if (!pollId) return;" and the delete statement.
DeletePollRequest(r, u, p) ==
  /\ Free(r)
  /\ req' = [req EXCEPT ![r] = [Idle EXCEPT !.kind = "deletePollAction", !.pc = "done",
                                            !.user = u, !.poll = p]]
  /\ LET left == IF u = NoUser \/ p = ""
                 THEN [polls |-> polls, poll_options |-> poll_options, votes |-> votes]
                 ELSE DeletePollStatement(polls, poll_options, votes, p, u)
     IN /\ polls' = left.polls
        /\ poll_options' = left.poll_options
        /\ votes' = left.votes
  /\ UNCHANGED <<nextVoteId, dbNow>>

DeleteTargets == PollIds \cup {""}

NextDelete ==
  \/ \E r \in DOMAIN req, u \in Users, b \in CastBallots, a \in BOOLEAN :
       castVote(r, u, b[1], b[2], a) /\ UNCHANGED rlVars
  \/ \E r \in DOMAIN req, u \in Users, b \in CastBallots : executeVote(r, u, b[1], b[2]) /\ UNCHANGED rlVars
  \/ \E r \in DOMAIN req, u \in Users, b \in CastBallots : dashboardVoteAction(r, u, b[1], b[2]) /\ UNCHANGED rlVars
  \/ \E r \in DOMAIN req, u \in Callers, p \in DeleteTargets : DeletePollRequest(r, u, p) /\ UNCHANGED rlVars
  \/ \E r \in DOMAIN req : EvCheckPoll(r) /\ UNCHANGED rlVars
  \/ \E r \in DOMAIN req : EvCheckOption(r) /\ UNCHANGED rlVars
  \/ \E r \in DOMAIN req : EvCheckVoted(r) /\ UNCHANGED rlVars
  \/ \E r \in DOMAIN req : EvWrite(r) /\ UNCHANGED rlVars
  \/ \E r \in DOMAIN req : CvCheckPoll(r) /\ UNCHANGED rlVars
  \/ \E r \in DOMAIN req : CvCheckOption(r) /\ UNCHANGED rlVars
  \/ \E r \in DOMAIN req : CvUpsert(r) /\ UNCHANGED rlVars
  \/ \E r \in DOMAIN req : DashCheck(r) /\ UNCHANGED rlVars
  \/ \E r \in DOMAIN req : DashInsert(r) /\ UNCHANGED rlVars
  \/ \E r \in DOMAIN req : DashUpdateOption(r) /\ UNCHANGED rlVars
  \/ \E r \in DOMAIN req : DashUpdatePoll(r) /\ UNCHANGED rlVars
  \/ \E r \in DOMAIN req : DashCounterError(r) /\ UNCHANGED rlVars

SpecDelete == Init /\ [][NextDelete]_vars

\* C23: a step removes a poll only as the deletePollAction request of the
\* poll's owner for that poll; a deletePollAction request of anybody else,
\* signed in or not, changes no table: the poll, its options and its votes
\* stay.
C23_OnlyOwnerDeletes ==
  [][/\ \A p \in DOMAIN polls \ DOMAIN polls' :
          \E r \in DOMAIN req :
            /\ req'[r] # req[r] /\ req'[r].kind = "deletePollAction"
            /\ req'[r].poll = p /\ req'[r].user = polls[p].owner_id
     /\ \A r \in DOMAIN req :
          (/\ req'[r] # req[r] /\ req'[r].kind = "deletePollAction"
           /\ (req'[r].poll \in DOMAIN polls => req'[r].user # polls[req'[r].poll].owner_id)) =>
             ~ TablesChange]_vars

\* a signed-in user who does not own the poll has asked to delete it; the
\* poll is there with a vote on it
C23_Witness_StrangerRefused ==
  \E r \in DOMAIN req :
    /\ req[r].kind = "deletePollAction" /\ req[r].pc = "done"
    /\ req[r].user # NoUser
    /\ req[r].poll \in DOMAIN polls /\ polls[req[r].poll].owner_id # req[r].user
    /\ RowsOfPoll(votes, req[r].poll) # {}
    /\ \E o \in DOMAIN poll_options : poll_options[o].poll_id = req[r].poll

\* C24: in every state, whatever casts and poll deletions interleave, every
\* ledger row names a poll and an option that exist, and every option names
\* a poll that exists.
C24_RowsReferToLivingPollAndOption ==
  /\ \A v \in votes : v.poll_id \in DOMAIN polls /\ v.option_id \in DOMAIN poll_options
  /\ \A o \in DOMAIN poll_options : poll_options[o].poll_id \in DOMAIN polls

\* a poll was deleted by its owner while a cast on it was between its checks
\* and its insert; the insert was refused and nothing of the poll is left
C24_Witness_InsertAfterDeletion ==
  \E r \in DOMAIN req, d \in DOMAIN req :
    /\ req[r].kind = "enhanced" /\ req[r].pc = "done"
    /\ req[r].result.code = "VOTE_ERROR"
    /\ req[d].kind = "deletePollAction" /\ req[d].poll = req[r].poll
    /\ req[r].poll \notin DOMAIN polls
    /\ RowsOfPoll(votes, req[r].poll) = {}


\* C25: no step of a cast, whatever its entry point, arguments or outcome,
\* takes a pair of poll and voter out of the ledger: a pair that has a row
\* before the step has a row after it.  Rows leave only by a vote deletion
\* or the cascade of a poll deletion, which are no steps of a cast.
C25_CastNeverUnvotes ==
  [][(\E r \in DOMAIN req : req'[r] # req[r] /\ req'[r].kind # "deletePollAction") =>
       \A v \in votes : RowsOfPair(votes', v.poll_id, v.user_id) # {}]_vars

\* a voter's allowed update has run on their row, which is in the ledger
C25_Witness_StillVotedAfterUpdate ==
  \E r \in DOMAIN req :
    /\ req[r].kind = "enhanced" /\ req[r].pc = "done"
    /\ req[r].seen /\ req[r].allow /\ req[r].result.code = "UPDATED"
    /\ \E v \in RowsOfPair(votes, req[r].poll, req[r].user) :
         v.id = req[r].result.vote_id /\ v.option_id = req[r].option

\* C27: an allowed update, through cast_vote_enhanced with allowUpdate = true
\* or through the upsert of cast_vote, on a row of the caller for the poll
\* leaves one row for the pair, with the vote id it had, the requested option
\* and the time of the update as its timestamp.
C27_UpdateOverwritesInPlace ==
  [][\A r \in DOMAIN req :
       (/\ Ends(r) /\ req'[r].result.success
        /\ \/ req[r].kind = "enhanced" /\ req[r].seen /\ req[r].allow
           \/ req[r].kind \in {"cast_vote", "voteAction"}
        /\ RowsOfPair(votes, req[r].poll, req[r].user) # {}) =>
          LET before == CHOOSE v \in RowsOfPair(votes, req[r].poll, req[r].user) : TRUE
          IN RowsOfPair(votes', req[r].poll, req[r].user) =
               {[before EXCEPT !.option_id = req[r].option, !.created_at = dbNow]}]_vars


\* ------------------------------------- the limiter with its status query
Max(a, b) == IF a >= b THEN a ELSE b

\* (faulty variant: the query opens and counts like checkRateLimit)
getRateLimitStatus_consuming(map, t, userId, action) ==
  LET c == checkRateLimit(map, t, userId, action, TRUE)
  IN [map |-> c.map,
      result |-> [remaining |-> c.result.remaining, resetTime |-> c.result.resetTime,
                  isLimited |-> ~ c.result.allowed]]

\* getRateLimitStatus(userId, action) called at time t on the map:
\* [map: the map after the call, result: the object returned]
getRateLimitStatus(map, t, userId, action) ==
  LET key == RateLimitKey(userId, action)
      config == RATE_LIMIT_CONFIGS[action]
  IN [map |-> map,
      result |-> IF WindowExpired(map, key, t)
                 THEN [remaining |-> config.maxRequests,
                       resetTime |-> t + config.windowMs,
                       isLimited |-> FALSE]
                 ELSE [remaining |-> Max(0, config.maxRequests - map[key].count),
                       resetTime |-> map[key].resetTime,
                       isLimited |-> map[key].count >= config.maxRequests]]

\* a caller of getRateLimitStatus; the record of the call takes the place of
\* the record of the last checkRateLimit call
GetRateLimitStatus(userId, action) ==
  \E s \in {getRateLimitStatus(rateLimitMap, now, userId, action)} :
    /\ rateLimitMap' = s.map
    /\ rlLast' = [called |-> FALSE, asked |-> TRUE, key |-> RateLimitKey(userId, action),
                  t |-> now, result |-> s.result]
    /\ UNCHANGED <<now, admitted, observed, executed, req>>
    /\ UNCHANGED dbVars

StatusAsked(call) == ~ call.called /\ "asked" \in DOMAIN call

\* the keys SpecStatus calls on
StatusCallers == {<<"u1", "create_poll">>, <<"u2", "vote">>}

NextStatus ==
  \/ \E k \in StatusCallers, success \in BOOLEAN : CheckRateLimit(k[1], k[2], success)
  \/ \E k \in StatusCallers : GetRateLimitStatus(k[1], k[2])
  \/ \E k \in StatusCallers : ClearRateLimit(k[1], k[2])
  \/ \E u \in Users : ClearRateLimit(u, "all")
  \/ CleanupExpiredRateLimits
  \/ Tick

SpecStatus == Init /\ [][NextStatus]_vars

\* C26: a getRateLimitStatus call leaves the rate-limit map as it was, for
\* every key, and with it the result and the effect of any checkRateLimit
\* call made next, whatever its key and its success argument.
C26_StatusConsumesNothing ==
  [][StatusAsked(rlLast') =>
       /\ rateLimitMap' = rateLimitMap
       /\ \A k \in RlKeys, success \in BOOLEAN :
            checkRateLimit(rateLimitMap', now', k[1], k[2], success)
              = checkRateLimit(rateLimitMap, now, k[1], k[2], success)]_vars

\* the status of a key whose window is exhausted has been asked: it reports
\* the key as limited, and the entry holds the full count
C26_Witness_StatusOfExhaustedKey ==
  /\ StatusAsked(rlLast)
  /\ rlLast.result.isLimited /\ rlLast.result.remaining = 0
  /\ rateLimitMap[rlLast.key].count = RATE_LIMIT_CONFIGS[rlLast.key[2]].maxRequests

\* C28: in every state every entry of the rate-limit map has a count between
\* 0 and the maxRequests of its action, and the remaining of the last
\* checkRateLimit result, like that of the last status, is between 0 and
\* maxRequests.
C28_CountWithinQuota ==
  /\ \A k \in DOMAIN rateLimitMap :
       rateLimitMap[k].count \in 0 .. RATE_LIMIT_CONFIGS[k[2]].maxRequests
  /\ (rlLast.called \/ StatusAsked(rlLast)) =>
       rlLast.result.remaining \in 0 .. RATE_LIMIT_CONFIGS[rlLast.key[2]].maxRequests

\* a counted call has just been refused on a full entry, with nothing remaining
C28_Witness_RefusedAtQuota ==
  /\ rlLast.called /\ rlLast.success /\ ~ rlLast.result.allowed
  /\ rlLast.result.remaining = 0
  /\ rateLimitMap[rlLast.key].count = RATE_LIMIT_CONFIGS[rlLast.key[2]].maxRequests
  /\ \E k \in DOMAIN rateLimitMap : rateLimitMap[k].count = 0


\* C29: a checkRateLimit call with success = false is always allowed and
\* counts nothing: the key's entry holds the count of its running window, or
\* 0 when the call opened the window, and no other entry changes, also when
\* the window's quota is used up.
C29_FailedRequestsNotCounted ==
  [][(rlLast'.called /\ ~ rlLast'.success) =>
       LET key == rlLast'.key
           running == InWindow(rateLimitMap, key, now)
       IN /\ rlLast'.result.allowed
          /\ rateLimitMap'[key].count = (IF running THEN rateLimitMap[key].count ELSE 0)
          /\ running => rateLimitMap' = rateLimitMap
          /\ \A k \in DOMAIN rateLimitMap \ {key} :
               k \in DOMAIN rateLimitMap' /\ rateLimitMap'[k] = rateLimitMap[k]]_vars

\* a call with success = false has been let through on an exhausted window
C29_Witness_FailedCallAtQuota ==
  /\ rlLast.called /\ ~ rlLast.success /\ rlLast.result.allowed
  /\ rlLast.had /\ rlLast.t <= rlLast.priorReset
  /\ rlLast.read = RATE_LIMIT_CONFIGS[rlLast.key[2]].maxRequests
  /\ rateLimitMap[rlLast.key].count = RATE_LIMIT_CONFIGS[rlLast.key[2]].maxRequests

\* C30: every checkRateLimit result has a resetTime at or after the time of
\* the call and a retryAfterSeconds from 0 to 60.  The call opens a window,
\* ending 60 seconds after it, exactly when the key has no entry or the time
\* is past the entry's resetTime; otherwise the resetTime of the entry
\* stands.  A counted call at the very resetTime of an exhausted window is
\* refused with retryAfterSeconds = 0.
C30_ResetTimeAndRetryAfter ==
  rlLast.called =>
    LET config == RATE_LIMIT_CONFIGS[rlLast.key[2]]
        elapsed == ~ rlLast.had \/ rlLast.t > rlLast.priorReset
    IN /\ rlLast.result.resetTime >= rlLast.t
       /\ rlLast.result.retryAfterSeconds \in 0 .. 60
       /\ rlLast.result.resetTime = (IF elapsed THEN rlLast.t + config.windowMs
                                                ELSE rlLast.priorReset)
       /\ rateLimitMap[rlLast.key].resetTime = rlLast.result.resetTime
       /\ (/\ rlLast.had /\ rlLast.t = rlLast.priorReset /\ rlLast.success
           /\ rlLast.read = config.maxRequests) =>
            /\ ~ rlLast.result.allowed
            /\ rlLast.result.retryAfterSeconds = 0

\* a counted call made at the resetTime of an exhausted window has been refused
C30_Witness_RefusedAtResetTime ==
  /\ rlLast.called /\ rlLast.success
  /\ rlLast.had /\ rlLast.t = rlLast.priorReset
  /\ ~ rlLast.result.allowed /\ rlLast.result.retryAfterSeconds = 0

====
